---- MODULE Spec2Model ----
(***************************************************************************)
(* Model of traceNTM_kwilli.py: the bounded breadth-first simulation of a  *)
(* non-deterministic Turing machine (class NonDeterministicTuringMachine). *)
(*                                                                         *)
(* A string is a sequence of one-character strings; the tape head is the   *)
(* 0-based Python index, so the symbol under the head is tape[head + 1].   *)
(* A Configuration object is a record whose parent field is <<>> (None) or *)
(* <<p>> (a reference to the parent Configuration p).                      *)
(***************************************************************************)
EXTENDS Integers, Sequences, FiniteSets, TLC

\* Bounds of the explored inputs.
MaxInputLen == 3
MaxDepth == 4

InputSyms == {"a", "b"}
Inputs == UNION {[1..n -> InputSyms] : n \in 0..MaxInputLen}
DepthBounds == {-1} \cup (0..MaxDepth)

(***************************************************************************)
(* Machine definitions, as parse_file leaves them: start, accept and       *)
(* reject state and the transition rows of the file in file order.  A row  *)
(* is <<current_state, read_char, next_state, write_char, move>>; the      *)
(* write_char is a string (normally of one character).                     *)
(***************************************************************************)
MAPlus ==
    [start |-> "q0", accept |-> "qacc", reject |-> "qrej",
     rules |-> << <<"q0", "a", "q1", <<"a">>, "R">>,
                  <<"q1", "a", "q1", <<"a">>, "R">>,
                  <<"q1", "_", "qacc", <<"_">>, "R">>,
                  <<"q0", "b", "qrej", <<"b">>, "R">> >>]

MEndsInA ==
    [start |-> "q0", accept |-> "qacc", reject |-> "qrej",
     rules |-> << <<"q0", "a", "q0", <<"a">>, "R">>,
                  <<"q0", "a", "q1", <<"a">>, "R">>,
                  <<"q0", "b", "q0", <<"b">>, "R">>,
                  <<"q1", "_", "qacc", <<"_">>, "R">>,
                  <<"q1", "b", "q1", <<"a">>, "R">> >>]

MTwin ==
    [start |-> "q0", accept |-> "qacc", reject |-> "qrej",
     rules |-> << <<"q0", "a", "q0", <<"a">>, "R">>,
                  <<"q0", "a", "q0", <<"a">>, "R">>,
                  <<"q0", "b", "qacc", <<"a">>, "L">>,
                  <<"q0", "b", "q1", <<"b">>, "R">>,
                  <<"q1", "_", "qacc", <<"_">>, "R">>,
                  <<"q0", "_", "q1", <<"b">>, "L">>,
                  <<"q1", "a", "q1", <<"a">>, "R">>,
                  <<"q1", "b", "qacc", <<"b">>, "R">> >>]

MBounce ==
    [start |-> "q0", accept |-> "qacc", reject |-> "qrej",
     rules |-> << <<"q0", "a", "q1", <<"a">>, "R">>,
                  <<"q0", "b", "q1", <<"b">>, "R">>,
                  <<"q1", "a", "q0", <<"a">>, "L">>,
                  <<"q1", "b", "q0", <<"b">>, "L">>,
                  <<"q1", "_", "q0", <<"_">>, "L">> >>]

MLeft ==
    [start |-> "q0", accept |-> "qacc", reject |-> "qrej",
     rules |-> << <<"q0", "a", "q1", <<"a">>, "L">>,
                  <<"q0", "a", "q0", <<"b">>, "R">>,
                  <<"q0", "b", "qacc", <<"b">>, "L">>,
                  <<"q0", "_", "q0", <<"_">>, "R">> >>]

MOdd ==
    [start |-> "q0", accept |-> "qacc", reject |-> "qrej",
     rules |-> << <<"q0", "a", "q0", <<>>, "R">>,
                  <<"q0", "_", "q1", <<"a", "a">>, "S">>,
                  <<"q0", "b", "q0", <<"b">>, "R">>,
                  <<"q1", "b", "qacc", <<"b">>, "R">>,
                  <<"q1", "_", "qrej", <<"_">>, "R">> >>]

MHalt ==
    [start |-> "q0", accept |-> "qh", reject |-> "qh",
     rules |-> << <<"q0", "a", "qh", <<"a">>, "R">>,
                  <<"q0", "b", "q0", <<"b">>, "R">> >>]

MStartAccepts ==
    [start |-> "qacc", accept |-> "qacc", reject |-> "qrej",
     rules |-> << <<"qacc", "a", "qacc", <<"a">>, "R">> >>]

MViaReject ==
    [start |-> "q0", accept |-> "qacc", reject |-> "qrej",
     rules |-> << <<"q0", "a", "qrej", <<"a">>, "R">>,
                  <<"qrej", "a", "qacc", <<"a">>, "R">>,
                  <<"qrej", "_", "qacc", <<"_">>, "R">>,
                  <<"q0", "b", "q1", <<"b">>, "L">>,
                  <<"q1", "_", "qacc", <<"_">>, "R">> >>]

MFan ==
    [start |-> "q0", accept |-> "qacc", reject |-> "qrej",
     rules |-> << <<"q0", "a", "q1", <<"a">>, "R">>,
                  <<"q0", "a", "qacc", <<"a">>, "R">>,
                  <<"q0", "a", "q0", <<"a">>, "R">>,
                  <<"q0", "b", "q0", <<"b">>, "R">>,
                  <<"q0", "b", "q0", <<"b">>, "R">> >>]

Machines ==
    {MAPlus, MEndsInA, MTwin, MBounce, MLeft, MOdd, MHalt, MStartAccepts,
     MViaReject, MFan}

(***************************************************************************)
(* Pure helpers of simulate.                                               *)
(***************************************************************************)
\* Configuration(tape, state, head, parent)
Configuration(tape, state, head, parent) ==
    [tape |-> tape, state |-> state, head |-> head, parent |-> parent]

\* self.transitions.get((state, char), []): the triples of the rows whose key
\* is (state, char), in file order.
RECURSIVE TriplesOf(_, _, _)
TriplesOf(rules, state, char) ==
    IF rules = <<>> THEN <<>>
    ELSE LET r == Head(rules)
             rest == TriplesOf(Tail(rules), state, char)
         IN  IF r[1] = state /\ r[2] = char
             THEN << <<r[3], r[4], r[5]>> >> \o rest
             ELSE rest

\* TransitionsFor when a later row of a key replaces the earlier ones.
TransitionsForLastRow(m, state, char) ==
    LET all == TriplesOf(m.rules, state, char)
    IN  IF all = <<>> THEN <<>> ELSE <<all[Len(all)]>>

TransitionsFor(m, state, char) == TriplesOf(m.rules, state, char)

\* "_" * n
Blanks(n) == [i \in 1..n |-> "_"]

\* ExtendTape adding one blank too many.
ExtendTapeOneMore(tape, head) ==
    IF head >= Len(tape) THEN tape \o Blanks(head - Len(tape) + 2) ELSE tape

\* if head >= len(tape): tape += "_" * (head - len(tape) + 1)
ExtendTape(tape, head) ==
    IF head >= Len(tape) THEN tape \o Blanks(head - Len(tape) + 1) ELSE tape

\* new_tape = list(tape); new_tape[head] = write_char; "".join(new_tape)
WriteAt(tape, head, write_char) ==
    SubSeq(tape, 1, head) \o write_char \o SubSeq(tape, head + 2, Len(tape))

\* head + (1 if move == "R" else -1)
MoveHead(head, move) == head + (IF move = "R" THEN 1 ELSE -1)

\* Key without the tape contents.
KeyStateHead(c) == <<<<>>, c.state, c.head>>

\* The visited-set key of a configuration.
Key(c) == <<c.tape, c.state, c.head>>

\* Outcome without the visited test.
OutcomeNoVisited(m, c, seen) ==
    IF c.state = m.accept THEN "accept"
    ELSE IF c.state = m.reject THEN "reject"
    ELSE IF c.head < 0 THEN "underflow"
    ELSE "expand"

\* Outcome with the head < 0 test made before the accept test.
OutcomeUnderflowFirst(m, c, seen) ==
    IF Key(c) \in seen THEN "visited"
    ELSE IF c.head < 0 THEN "underflow"
    ELSE IF c.state = m.accept THEN "accept"
    ELSE IF c.state = m.reject THEN "reject"
    ELSE "expand"

\* Outcome with the reject test made before the accept test.
OutcomeRejectFirst(m, c, seen) ==
    IF Key(c) \in seen THEN "visited"
    ELSE IF c.state = m.reject THEN "reject"
    ELSE IF c.state = m.accept THEN "accept"
    ELSE IF c.head < 0 THEN "underflow"
    ELSE "expand"

\* The tests the for loop makes on a configuration, in the order of the code:
\* visited, accept state, reject state, head < 0; otherwise it is expanded.
Outcome(m, c, seen) ==
    IF Key(c) \in seen THEN "visited"
    ELSE IF c.state = m.accept THEN "accept"
    ELSE IF c.state = m.reject THEN "reject"
    ELSE IF c.head < 0 THEN "underflow"
    ELSE "expand"

\* Successors with every child linked to its grandparent.
SuccessorsWrongParent(m, c) ==
    LET tape == ExtendTape(c.tape, c.head)
        char_at_head == tape[c.head + 1]
        triples == TransitionsFor(m, c.state, char_at_head)
    IN  [i \in 1..Len(triples) |->
            Configuration(WriteAt(tape, c.head, triples[i][2]), triples[i][1],
                          MoveHead(c.head, triples[i][3]), c.parent)]

\* The successors the inner for loop appends for a configuration that passed
\* the visited, accept, reject and head < 0 tests.
Successors(m, c) ==
    LET tape == ExtendTape(c.tape, c.head)
        char_at_head == tape[c.head + 1]
        triples == TransitionsFor(m, c.state, char_at_head)
    IN  [i \in 1..Len(triples) |->
            Configuration(WriteAt(tape, c.head, triples[i][2]), triples[i][1],
                          MoveHead(c.head, triples[i][3]), <<c>>)]

\* print_accept_path: the parent chain from the accept node, then reversed.
RECURSIVE ParentChain(_)
ParentChain(ref) ==
    IF ref = <<>> THEN <<>> ELSE <<ref[1]>> \o ParentChain(ref[1].parent)

Reverse(s) == [i \in 1..Len(s) |-> s[Len(s) + 1 - i]]

AcceptPath(ref) == Reverse(ParentChain(ref))

\* One row of the printed table: left of head, state, head char, right of head.
PathRow(c) ==
    IF c.head < 0
    THEN [left |-> <<>>, state |-> c.state, head_char |-> "_", right |-> c.tape]
    ELSE IF c.head >= Len(c.tape)
    THEN [left |-> c.tape, state |-> c.state, head_char |-> "_", right |-> <<>>]
    ELSE [left |-> SubSeq(c.tape, 1, c.head), state |-> c.state,
          head_char |-> c.tape[c.head + 1],
          right |-> SubSeq(c.tape, c.head + 2, Len(c.tape))]

Line(marker, n) == [marker |-> marker, n |-> n]

(***************************************************************************)
(* State.                                                                  *)
(***************************************************************************)
VARIABLES
    machine,               \* the parsed machine definition of the engine
    input,                 \* input_string passed to simulate
    pc,                    \* "idle", "while", "for" or "done"
    phase,                 \* "first" or "second" run of the caller
    ncalls,                \* simulate calls made on this engine instance
    max_depth,             \* self.max_depth
    accept_path,           \* self.accept_path: <<>> or <<config>>
    total_configurations,  \* self.total_configurations
    level_branching,       \* self.level_branching: <<branching_factor, len>>
    tree,                  \* self.tree
    visited,               \* visited
    level,                 \* level
    idx,                   \* position of the for loop in current_level
    next_level,            \* next_level
    branching_factor,      \* branching_factor
    result,                \* the value simulate returned ("none" before)
    out,                   \* marker lines printed by the current call
    table,                 \* rows printed by print_accept_path
    prev                   \* what the caller read after the first run

vars ==
    <<machine, input, pc, phase, ncalls, max_depth, accept_path,
      total_configurations, level_branching, tree, visited, level, idx,
      next_level, branching_factor, result, out, table, prev>>

engine == <<max_depth, accept_path, total_configurations, level_branching>>
locals == <<tree, visited, level, idx, next_level, branching_factor>>
caller == <<machine, input, phase, ncalls, prev>>
output == <<result, out, table>>

\* NonDeterministicTuringMachine(filename), before any call of simulate.
Init ==
    /\ machine \in Machines
    /\ input \in Inputs
    /\ pc = "idle"
    /\ phase = "first"
    /\ ncalls = 0
    /\ max_depth = 0
    /\ accept_path = <<>>
    /\ total_configurations = 0
    /\ level_branching = <<>>
    /\ tree = <<>>
    /\ visited = {}
    /\ level = 0
    /\ idx = 0
    /\ next_level = <<>>
    /\ branching_factor = 0
    /\ result = "none"
    /\ out = <<>>
    /\ table = <<>>
    /\ prev = <<>>

\* What __main__ reads after simulate returned.
Summary ==
    [fresh |-> ncalls = 1, depth |-> max_depth, result |-> result,
     out |-> out, table |-> table, tree_depth |-> Len(tree) - 1,
     total |-> total_configurations, level_branching |-> level_branching,
     accept_path |-> accept_path]

\* NewEngine with the counter shared between the instances.
NewEngineSharedCounter ==
    /\ pc = "done"
    /\ phase = "first"
    /\ prev' = <<[fresh |-> ncalls = 1, depth |-> max_depth, result |-> result,
                  out |-> out, table |-> table, tree_depth |-> Len(tree) - 1,
                  total |-> total_configurations,
                  level_branching |-> level_branching,
                  accept_path |-> accept_path]>>
    /\ phase' = "second"
    /\ pc' = "idle"
    /\ ncalls' = 0
    /\ max_depth' = 0
    /\ accept_path' = <<>>
    /\ level_branching' = <<>>
    /\ UNCHANGED <<machine, input, total_configurations, tree, visited, level,
                   idx, next_level, branching_factor, result, out, table>>

\* A second engine is constructed for the same machine file.
NewEngine ==
    /\ pc = "done"
    /\ phase = "first"
    /\ prev' = <<Summary>>
    /\ phase' = "second"
    /\ pc' = "idle"
    /\ ncalls' = 0
    /\ max_depth' = 0
    /\ accept_path' = <<>>
    /\ total_configurations' = 0
    /\ level_branching' = <<>>
    /\ UNCHANGED <<machine, input, locals, output>>

\* simulate(input_string, max_depth), up to the first test of the while loop.
SimulateCall(d) ==
    /\ \/ pc = "idle" /\ UNCHANGED <<phase, prev>>
       \/ pc = "done" /\ phase = "first" /\ phase' = "second"
          /\ prev' = <<Summary>>
    /\ ncalls' = ncalls + 1
    /\ max_depth' = d
    /\ tree' = << <<Configuration(input, machine.start, 0, <<>>)>> >>
    /\ visited' = {}
    /\ level' = 0
    /\ idx' = 0
    /\ next_level' = <<>>
    /\ branching_factor' = 0
    /\ result' = "none"
    /\ out' = <<>>
    /\ table' = <<>>
    /\ pc' = "while"
    /\ UNCHANGED <<machine, input, accept_path, total_configurations,
                   level_branching>>

\* The loop condition with < for <=.
LoopConditionStrict == level < max_depth

\* The loop condition with one more level allowed.
LoopConditionOneMore == level <= max_depth + 1

\* while level <= max_depth
LoopCondition == level <= max_depth

\* The while loop is entered for the next level.
LevelBegin ==
    /\ pc = "while"
    /\ LoopCondition
    /\ idx' = 1
    /\ next_level' = <<>>
    /\ branching_factor' = 0
    /\ pc' = "for"
    /\ UNCHANGED <<caller, engine, tree, visited, level, output>>

\* LoopExit that also counts the configurations left unexplored in the
\* last level.
LoopExitCountsPending ==
    /\ pc = "while"
    /\ ~LoopCondition
    /\ out' = Append(out, Line("Execution stopped after", max_depth))
    /\ result' = "stopped"
    /\ pc' = "done"
    /\ total_configurations' = total_configurations + Len(tree[level + 1])
    /\ UNCHANGED <<caller, max_depth, accept_path, level_branching, locals,
                   table>>

\* The while loop ends: the depth limit is reached without a result.
LoopExit ==
    /\ pc = "while"
    /\ ~LoopCondition
    /\ out' = Append(out, Line("Execution stopped after", max_depth))
    /\ result' = "stopped"
    /\ pc' = "done"
    /\ UNCHANGED <<caller, engine, locals, table>>

current_level == tree[level + 1]
current_config == current_level[idx]
InForBody == pc = "for" /\ idx <= Len(current_level)
outcome == Outcome(machine, current_config, visited)

\* SkipVisited with the counter incremented after the visited test only.
SkipVisitedUncounted ==
    /\ pc = "for" /\ idx <= Len(tree[level + 1])
    /\ Outcome(machine, tree[level + 1][idx], visited) = "visited"
    /\ idx' = idx + 1
    /\ UNCHANGED <<caller, engine, tree, visited, level, next_level,
                   branching_factor, output, pc>>

\* if (tape, state, head) in visited: continue
SkipVisited ==
    /\ InForBody
    /\ total_configurations' = total_configurations + 1
    /\ outcome = "visited"
    /\ idx' = idx + 1
    /\ UNCHANGED <<caller, max_depth, accept_path, level_branching, tree,
                   visited, level, next_level, branching_factor, output, pc>>

\* Accept without the return: the for loop goes on.
AcceptNoReturn ==
    /\ pc = "for" /\ idx <= Len(tree[level + 1])
    /\ total_configurations' = total_configurations + 1
    /\ Outcome(machine, tree[level + 1][idx], visited) = "accept"
    /\ visited' = visited \cup {Key(tree[level + 1][idx])}
    /\ accept_path' = <<tree[level + 1][idx]>>
    /\ LET path == AcceptPath(<<tree[level + 1][idx]>>)
       IN  /\ out' = Append(out, Line("String accepted in", Len(path) - 1))
           /\ table' = table \o [i \in 1..Len(path) |-> PathRow(path[i])]
    /\ result' = "accept"
    /\ idx' = idx + 1
    /\ UNCHANGED <<caller, max_depth, level_branching, tree, level,
                   next_level, branching_factor, pc>>

\* if state == self.accept_state: record, print the path, return "accept".
Accept ==
    /\ InForBody
    /\ total_configurations' = total_configurations + 1
    /\ outcome = "accept"
    /\ visited' = visited \cup {Key(current_config)}
    /\ accept_path' = <<current_config>>
    /\ LET path == AcceptPath(<<current_config>>)
       IN  /\ out' = Append(out, Line("String accepted in", Len(path) - 1))
           /\ table' = table \o [i \in 1..Len(path) |-> PathRow(path[i])]
    /\ result' = "accept"
    /\ pc' = "done"
    /\ UNCHANGED <<caller, max_depth, level_branching, tree, level, idx,
                   next_level, branching_factor>>

\* RejectState returning "reject" at the first rejecting configuration.
RejectStateReturns ==
    /\ pc = "for" /\ idx <= Len(tree[level + 1])
    /\ total_configurations' = total_configurations + 1
    /\ Outcome(machine, tree[level + 1][idx], visited) = "reject"
    /\ visited' = visited \cup {Key(tree[level + 1][idx])}
    /\ out' = Append(out, Line("String rejected in", level))
    /\ result' = "reject"
    /\ pc' = "done"
    /\ UNCHANGED <<caller, max_depth, accept_path, level_branching, tree,
                   level, idx, next_level, branching_factor, table>>

\* elif state == self.reject_state: continue
RejectState ==
    /\ InForBody
    /\ total_configurations' = total_configurations + 1
    /\ outcome = "reject"
    /\ visited' = visited \cup {Key(current_config)}
    /\ idx' = idx + 1
    /\ UNCHANGED <<caller, max_depth, accept_path, level_branching, tree,
                   level, next_level, branching_factor, output, pc>>

\* if head < 0: continue
HeadUnderflow ==
    /\ InForBody
    /\ total_configurations' = total_configurations + 1
    /\ outcome = "underflow"
    /\ visited' = visited \cup {Key(current_config)}
    /\ idx' = idx + 1
    /\ UNCHANGED <<caller, max_depth, accept_path, level_branching, tree,
                   level, next_level, branching_factor, output, pc>>

\* The transitions for (state, char_at_head) are applied.
Expand ==
    /\ InForBody
    /\ total_configurations' = total_configurations + 1
    /\ outcome = "expand"
    /\ visited' = visited \cup {Key(current_config)}
    /\ LET new == Successors(machine, current_config)
       IN  /\ branching_factor' = branching_factor + Len(new)
           /\ next_level' = next_level \o new
    /\ idx' = idx + 1
    /\ UNCHANGED <<caller, max_depth, accept_path, level_branching, tree,
                   level, output, pc>>

\* NextLevel dividing the branching factor by the length of the new level.
NextLevelWrongDivisor ==
    /\ pc = "for"
    /\ idx > Len(tree[level + 1])
    /\ next_level # <<>>
    /\ level_branching' =
           Append(level_branching, <<branching_factor, Len(next_level)>>)
    /\ tree' = Append(tree, next_level)
    /\ level' = level + 1
    /\ pc' = "while"
    /\ UNCHANGED <<caller, max_depth, accept_path, total_configurations,
                   visited, idx, next_level, branching_factor, output>>

\* After the for loop, next_level is not empty: record the branching factor,
\* append the level, level += 1.
NextLevel ==
    /\ pc = "for"
    /\ idx > Len(current_level)
    /\ next_level # <<>>
    /\ level_branching' =
           Append(level_branching, <<branching_factor, Len(current_level)>>)
    /\ tree' = Append(tree, next_level)
    /\ level' = level + 1
    /\ pc' = "while"
    /\ UNCHANGED <<caller, max_depth, accept_path, total_configurations,
                   visited, idx, next_level, branching_factor, output>>

\* RejectAll printing the number of processed levels instead of the level.
RejectAllOffByOne ==
    /\ pc = "for"
    /\ idx > Len(tree[level + 1])
    /\ next_level = <<>>
    /\ out' = Append(out, Line("String rejected in", level + 1))
    /\ result' = "reject"
    /\ pc' = "done"
    /\ UNCHANGED <<caller, engine, locals, table>>

\* After the for loop, next_level is empty: return "reject".
RejectAll ==
    /\ pc = "for"
    /\ idx > Len(current_level)
    /\ next_level = <<>>
    /\ out' = Append(out, Line("String rejected in", level))
    /\ result' = "reject"
    /\ pc' = "done"
    /\ UNCHANGED <<caller, engine, locals, table>>

\* sum(self.level_branching), as a fraction <<numerator, denominator>>; an
\* entry <<b, n>> of level_branching stands for the quotient b / n.
RECURSIVE SumOf(_)
SumOf(ratios) ==
    IF ratios = <<>> THEN <<0, 1>>
    ELSE LET h == Head(ratios)
             r == SumOf(Tail(ratios))
         IN  <<h[1] * r[2] + r[1] * h[2], h[2] * r[2]>>

\* average_nondeterminism(): sum / len if the list is not empty, else 0.
AverageNondeterminism ==
    IF level_branching # <<>>
    THEN <<SumOf(level_branching)[1],
           SumOf(level_branching)[2] * Len(level_branching)>>
    ELSE <<0, 1>>

\* The steps of a running simulate call.
Step ==
    \/ LevelBegin
    \/ LoopExit
    \/ SkipVisited
    \/ Accept
    \/ RejectState
    \/ HeadUnderflow
    \/ Expand
    \/ NextLevel
    \/ RejectAll

Next ==
    \/ NewEngine
    \/ \E d \in DepthBounds : SimulateCall(d)
    \/ Step

Spec == Init /\ [][Next]_vars

\* simulate is synchronous: a call that has started runs on until it returns.
FairSpec == Spec /\ WF_vars(Step)

TypeOK ==
    /\ pc \in {"idle", "while", "for", "done"}
    /\ phase \in {"first", "second"}
    /\ result \in {"none", "accept", "reject", "stopped"}
    /\ total_configurations \in Nat
    /\ level \in Nat

(***************************************************************************)
(* Reference semantics used by the properties.                             *)
(***************************************************************************)
Root == <<input, machine.start, 0>>
AsConfig(t) == Configuration(t[1], t[2], t[3], <<>>)

\* The (tape, state, head) triples one transition application away from t.
Moves(m, t) ==
    LET tape == ExtendTape(t[1], t[3])
        triples == TransitionsFor(m, t[2], tape[t[3] + 1])
    IN  {<<WriteAt(tape, t[3], triples[i][2]), triples[i][1],
           MoveHead(t[3], triples[i][3])>> : i \in 1..Len(triples)}

\* A triple from which a branch can go on: not rejecting, head on the tape.
Live(m, t) == t[2] # m.reject /\ t[3] >= 0

\* The triples reachable from the root by exactly k transition applications
\* along branches whose intermediate configurations are live.
RECURSIVE ReachIn(_)
ReachIn(k) ==
    IF k = 0 THEN {Root}
    ELSE UNION {Moves(machine, t) : t \in {u \in ReachIn(k - 1) : Live(machine, u)}}

AcceptReachableIn(k) == \E t \in ReachIn(k) : t[2] = machine.accept

Returned == pc = "done"
FreshRun == ncalls = 1
Markers ==
    [accept |-> "String accepted in", reject |-> "String rejected in",
     stopped |-> "Execution stopped after"]

\* C1: every call of simulate that has started returns, and when it has
\* returned the verdict is one of accept, reject, stopped and exactly one
\* marker line was printed, the one of that verdict.
C1_OneVerdict ==
    /\ [](Returned =>
            /\ result \in {"accept", "reject", "stopped"}
            /\ Len(out) = 1
            /\ out[1].marker = Markers[result])
    /\ [](pc \in {"while", "for"} => <>Returned)

C1_Witness ==
    /\ Returned /\ phase = "second" /\ max_depth < 0
    /\ prev[1].result = "accept" /\ prev[1].depth > 0
    /\ result = "stopped" /\ Len(out) = 1

\* C2: on a fresh engine with max_depth >= 0, if an accept-state
\* configuration is reachable within max_depth transition applications along
\* a live branch, simulate returns accept.
C2_Completeness ==
    (Returned /\ FreshRun /\ max_depth >= 0
        /\ \E k \in 0..max_depth : AcceptReachableIn(k))
    => result = "accept"

C2_Witness ==
    /\ Returned /\ FreshRun /\ result = "accept"
    /\ AcceptReachableIn(max_depth) /\ max_depth >= 3
    /\ \A k \in 0..(max_depth - 1) : ~AcceptReachableIn(k)
    /\ total_configurations > Cardinality(visited)

\* C3: when simulate returns accept with step count N, N <= max_depth and no
\* accept-state configuration is reachable by fewer than N transitions.
C3_Minimality ==
    (Returned /\ result = "accept")
    => /\ out[1].n <= max_depth
       /\ \A k \in 0..(out[1].n - 1) : ~AcceptReachableIn(k)

C3_Witness ==
    /\ Returned /\ result = "accept" /\ out[1].n >= 2
    /\ Len(tree[out[1].n + 1]) >= 2

\* C4: when simulate returns accept, the path from the root to the accept
\* node starts at (input, start, 0), ends in the accept state, each link is
\* one triple of the table applied to the parent, and the reported step
\* count is the number of links and the level of the accept node.
IsStepOf(m, p, c) ==
    /\ p.head >= 0
    /\ c.parent = <<p>>
    /\ LET tape == ExtendTape(p.tape, p.head)
           triples == TransitionsFor(m, p.state, tape[p.head + 1])
       IN  \E i \in 1..Len(triples) :
              /\ c.state = triples[i][1]
              /\ c.tape = SubSeq(tape, 1, p.head) \o triples[i][2]
                              \o SubSeq(tape, p.head + 2, Len(tape))
              /\ c.head = IF triples[i][3] = "R" THEN p.head + 1 ELSE p.head - 1

C4_PathValid ==
    (Returned /\ result = "accept")
    => LET path == AcceptPath(accept_path)
       IN  /\ Len(path) >= 1
           /\ path[1] = Configuration(input, machine.start, 0, <<>>)
           /\ path[Len(path)].state = machine.accept
           /\ \A i \in 1..(Len(path) - 1) : IsStepOf(machine, path[i], path[i + 1])
           /\ out[1].n = Len(path) - 1
           /\ out[1].n = level
           /\ \E j \in 1..Len(tree[level + 1]) : tree[level + 1][j] = accept_path[1]

C4_Witness ==
    /\ Returned /\ result = "accept" /\ level >= 3
    /\ \E i \in 1..Len(AcceptPath(accept_path)) :
          AcceptPath(accept_path)[i].head >= Len(AcceptPath(accept_path)[i].tape)
    /\ \E i \in 1..Len(AcceptPath(accept_path)) :
          AcceptPath(accept_path)[i].tape # input

(***************************************************************************)
(* Reference level-by-level exploration with a visited set, on sets of     *)
(* triples: RefLevel(k) are the triples at level k and RefSeen(k) those    *)
(* of the levels before k.                                                 *)
(***************************************************************************)
RECURSIVE RefLevel(_)
RECURSIVE RefSeen(_)
RefExpanded(k) ==
    {t \in RefLevel(k) \ RefSeen(k) :
        t[2] # machine.accept /\ t[2] # machine.reject /\ t[3] >= 0}

RefLevel(k) ==
    IF k = 0 THEN {Root}
    ELSE UNION {Moves(machine, t) : t \in RefExpanded(k - 1)}

RefSeen(k) == IF k = 0 THEN {} ELSE RefSeen(k - 1) \cup RefLevel(k - 1)

RefAcceptAt(k) == \E t \in RefLevel(k) : t[2] = machine.accept

\* N is the first level, within the bound, at which every branch has died,
\* and no accept node is found up to it.
RefRejectAt(N) ==
    /\ N <= max_depth
    /\ \A j \in 0..N : ~RefAcceptAt(j)
    /\ \A j \in 0..(N - 1) : RefLevel(j + 1) # {}
    /\ RefLevel(N + 1) = {}

\* No accept node is found and every level 0..max_depth has a successor.
RefStopped ==
    \A j \in 0..max_depth : ~RefAcceptAt(j) /\ RefLevel(j + 1) # {}

\* C5: simulate returns reject with step count N exactly when N <= max_depth
\* is the first level at which no configuration produced a successor and no
\* accept node was found at levels 0..N.
C5_RejectExactly ==
    Returned =>
        \A N \in 0..(MaxDepth + 1) :
            (result = "reject" /\ out = <<Line("String rejected in", N)>>)
                <=> RefRejectAt(N)

C5_Witness ==
    /\ Returned /\ result = "reject" /\ level >= 2 /\ max_depth > level
    /\ total_configurations > Cardinality(visited)
    /\ RefRejectAt(level)

\* C6: simulate returns stopped exactly when no accept node was found and
\* every level 0..max_depth produced a successor (or max_depth < 0); the loop
\* was left with level > max_depth and the marker prints max_depth.
C6_StoppedExactly ==
    Returned =>
        /\ result = "stopped" <=> RefStopped
        /\ result = "stopped" =>
              /\ level > max_depth
              /\ out = <<Line("Execution stopped after", max_depth)>>

C6_Witness ==
    /\ Returned /\ result = "stopped" /\ max_depth >= 2
    /\ level = max_depth + 1 /\ RefStopped
    /\ Len(tree[level + 1]) >= 2

\* C7: after a run with max_depth >= 0 no configuration of the tree has
\* more than max_depth parent links: the tree depth is at most max_depth.
C7_TreeDepthBounded ==
    (Returned /\ max_depth >= 0) =>
        /\ Len(tree) - 1 <= max_depth
        /\ \A l \in 1..Len(tree) : \A i \in 1..Len(tree[l]) :
              Len(ParentChain(<<tree[l][i]>>)) - 1 <= max_depth

\* C8: with max_depth < 0 simulate returns stopped, nothing is expanded or
\* counted, the tree holds only the root and no branching factor is
\* recorded, whatever the machine and the input.
C8_NegativeDepth ==
    (Returned /\ max_depth < 0) =>
        /\ result = "stopped"
        /\ out = <<Line("Execution stopped after", max_depth)>>
        /\ tree = << <<Configuration(input, machine.start, 0, <<>>)>> >>
        /\ visited = {} /\ next_level = <<>> /\ level = 0
        /\ table = <<>>
        /\ IF FreshRun
           THEN /\ total_configurations = 0
                /\ level_branching = <<>>
                /\ accept_path = <<>>
           ELSE /\ total_configurations = prev[1].total
                /\ level_branching = prev[1].level_branching
                /\ accept_path = prev[1].accept_path

C8_Witness ==
    /\ Returned /\ max_depth < 0 /\ result = "stopped"
    /\ machine.start = machine.accept /\ Len(input) >= 1

\* C9 as stated: after any run on a fresh engine the total configurations
\* explored is at least 1, for every depth bound.
C9_TotalAtLeastOne ==
    (Returned /\ FreshRun) => total_configurations >= 1

\* C9 amended: after a run on a fresh engine with max_depth >= 0 the total
\* configurations explored is at least 1; with max_depth < 0 it is 0.
C9_TotalAtLeastOneNonNegative ==
    (Returned /\ FreshRun) =>
        IF max_depth >= 0 THEN total_configurations >= 1
        ELSE total_configurations = 0

C9_Witness ==
    /\ Returned /\ FreshRun /\ max_depth = 0 /\ total_configurations = 1
    /\ result = "stopped"

\* C10: of two runs on fresh engines with the same machine and input, the
\* one with the smaller depth bound explores no more configurations.
C10_TotalMonotone ==
    (Returned /\ FreshRun /\ prev # <<>>) =>
        /\ prev[1].depth <= max_depth => prev[1].total <= total_configurations
        /\ max_depth <= prev[1].depth => total_configurations <= prev[1].total

C10_Witness ==
    /\ Returned /\ FreshRun /\ prev # <<>>
    /\ prev[1].depth < max_depth /\ prev[1].depth >= 0
    /\ prev[1].result = "stopped" /\ result = "accept"
    /\ prev[1].total < total_configurations
    /\ Len(tree[level + 1]) >= 2

\* The (tape, state, head) triples of a path of configurations.
KeysOf(path) == [i \in 1..Len(path) |-> Key(path[i])]

\* C11: two runs with the same machine, input and depth bound, each on a
\* fresh engine, give the same verdict, step count, accepting path, printed
\* table, total configurations explored and branching factors.
C11_Deterministic ==
    (Returned /\ FreshRun /\ prev # <<>> /\ prev[1].depth = max_depth) =>
        /\ result = prev[1].result
        /\ out = prev[1].out
        /\ KeysOf(AcceptPath(accept_path)) = KeysOf(AcceptPath(prev[1].accept_path))
        /\ table = prev[1].table
        /\ total_configurations = prev[1].total
        /\ level_branching = prev[1].level_branching
        /\ Len(tree) - 1 = prev[1].tree_depth

C11_Witness ==
    /\ Returned /\ FreshRun /\ prev # <<>> /\ prev[1].depth = max_depth
    /\ result = "accept" /\ out[1].n >= 3
    /\ total_configurations > Cardinality(visited)
    /\ \E i \in 1..Len(machine.rules) : \E j \in (i + 1)..Len(machine.rules) :
          /\ machine.rules[i][1] = machine.rules[j][1]
          /\ machine.rules[i][2] = machine.rules[j][2]

\* C12: a second call of simulate on the same engine, with the arguments of
\* the first call (made when the engine was fresh), gives the same verdict,
\* total configurations explored, branching factors and accept node.
C12_Reentrant ==
    (Returned /\ ncalls = 2 /\ prev[1].depth = max_depth) =>
        /\ result = prev[1].result
        /\ total_configurations = prev[1].total
        /\ level_branching = prev[1].level_branching
        /\ accept_path = prev[1].accept_path

(***************************************************************************)
(* A single run of a fresh engine, over the inputs and depth bounds of     *)
(* test_cases as well as the bounded ones.                                 *)
(***************************************************************************)
MaxSteps == 12

ExampleInputs ==
    {<<"a", "a", "a", "a", "a">>, <<"b", "b", "b", "b">>,
     <<"a", "b", "a", "b", "a">>,
     <<"a", "a", "a", "a", "a", "a", "a", "a", "a", "a">>}
ExampleDepths == {5, 8, 10}

ExamplesInit ==
    /\ machine \in Machines
    /\ input \in Inputs \cup ExampleInputs
    /\ pc = "idle"
    /\ phase = "first"
    /\ ncalls = 0
    /\ max_depth = 0
    /\ accept_path = <<>>
    /\ total_configurations = 0
    /\ level_branching = <<>>
    /\ tree = <<>>
    /\ visited = {}
    /\ level = 0
    /\ idx = 0
    /\ next_level = <<>>
    /\ branching_factor = 0
    /\ result = "none"
    /\ out = <<>>
    /\ table = <<>>
    /\ prev = <<>>

FirstCall(d) == pc = "idle" /\ SimulateCall(d)

ExamplesNext ==
    \/ \E d \in DepthBounds \cup ExampleDepths : FirstCall(d)
    \/ Step

ExamplesSpec == ExamplesInit /\ [][ExamplesNext]_vars

\* At most one triple per (state, symbol) key.
Deterministic(m) ==
    \A i \in 1..Len(m.rules) : \A j \in 1..Len(m.rules) :
        (m.rules[i][1] = m.rules[j][1] /\ m.rules[i][2] = m.rules[j][2]) => i = j

\* The configuration of the single run of a deterministic machine after k
\* transitions (the empty set once the run has accepted or died).
RECURSIVE RunAt(_)
RunAt(k) ==
    IF k = 0 THEN {Root}
    ELSE UNION {Moves(machine, t) :
                  t \in {u \in RunAt(k - 1) :
                            u[2] # machine.accept /\ Live(machine, u)}}

FirstAcceptsAt(k) == \E t \in RunAt(k) : t[2] = machine.accept
DiesAt(k) ==
    \E t \in RunAt(k) :
        /\ t[2] # machine.accept
        /\ (~Live(machine, t) \/ Moves(machine, t) = {})

TenAs == <<"a", "a", "a", "a", "a", "a", "a", "a", "a", "a">>

\* C13: for a deterministic machine whose run first accepts (dies) after
\* k transitions, simulate returns accept (reject) with step count k when
\* max_depth >= k and stopped when 0 <= max_depth < k; the a+ machine
\* accepts aaaaa at bound 10, rejects bbbb, ababa and the empty string at
\* bound 10 and stops on ten a at bounds 5 and 8.
C13_DeterministicRun ==
    (Returned /\ max_depth >= 0) =>
        /\ Deterministic(machine) =>
              \A k \in 0..MaxSteps :
                 /\ FirstAcceptsAt(k) =>
                       IF max_depth >= k
                       THEN result = "accept"
                            /\ out = <<Line("String accepted in", k)>>
                       ELSE result = "stopped"
                 /\ DiesAt(k) =>
                       IF max_depth >= k
                       THEN result = "reject"
                            /\ out = <<Line("String rejected in", k)>>
                       ELSE result = "stopped"
        /\ (machine = MAPlus /\ max_depth = 10) =>
              /\ input = <<"a", "a", "a", "a", "a">> => result = "accept"
              /\ input = <<"b", "b", "b", "b">> => result = "reject"
              /\ input = <<"a", "b", "a", "b", "a">> => result = "reject"
              /\ input = <<>> => out = <<Line("String rejected in", 0)>>
        /\ (machine = MAPlus /\ input = TenAs /\ max_depth \in {5, 8}) =>
              result = "stopped"

C13_Witness ==
    /\ Returned /\ machine = MAPlus /\ input = TenAs /\ max_depth = 8
    /\ result = "stopped" /\ FirstAcceptsAt(11)

\* Equality of two fractions <<numerator, denominator>>.
SameFraction(x, y) == x[1] * y[2] = y[1] * x[2]

\* The sum over the tree levels 1..n of (size of the next level) / (size of
\* the level), as a fraction.
RECURSIVE TreeRatioSum(_)
TreeRatioSum(n) ==
    IF n = 0 THEN <<0, 1>>
    ELSE LET r == TreeRatioSum(n - 1)
         IN  <<Len(tree[n + 1]) * r[2] + r[1] * Len(tree[n]),
               Len(tree[n]) * r[2]>>

\* C14: on a fresh engine, at every return one branching factor is recorded
\* per tree level that has a next level, it is (successors produced at the
\* level) / (configurations in the level), and average_nondeterminism is the
\* mean of the recorded values, 0 when there is none.
C14_BranchingStatistics ==
    (Returned /\ FreshRun) =>
        /\ Len(level_branching) = Len(tree) - 1
        /\ \A l \in 1..Len(level_branching) :
              /\ level_branching[l] = <<Len(tree[l + 1]), Len(tree[l])>>
              /\ Len(tree[l + 1]) > 0
        /\ result = "reject" => Len(level_branching) = level
        /\ IF Len(tree) = 1
           THEN AverageNondeterminism = <<0, 1>>
           ELSE SameFraction(AverageNondeterminism,
                             <<TreeRatioSum(Len(tree) - 1)[1],
                               TreeRatioSum(Len(tree) - 1)[2] * (Len(tree) - 1)>>)

C14_Witness ==
    /\ Returned /\ FreshRun /\ Len(level_branching) >= 3
    /\ \E l \in 1..Len(level_branching) :
          level_branching[l][1] > level_branching[l][2]
    /\ \E l \in 1..Len(level_branching) :
          level_branching[l][1] < level_branching[l][2]
    /\ total_configurations > Cardinality(visited)

\* The number of configurations in the first n levels of the tree.
RECURSIVE TreeSize(_)
TreeSize(n) == IF n = 0 THEN 0 ELSE TreeSize(n - 1) + Len(tree[n])

\* The 1-based position of the accept node in its level.
AcceptPosition ==
    CHOOSE j \in 1..Len(tree[level + 1]) :
        /\ tree[level + 1][j] = accept_path[1]
        /\ \A i \in 1..(j - 1) : tree[level + 1][i] # accept_path[1]

ChildSlots ==
    UNION {{<<l, i>> : i \in 1..Len(tree[l])} : l \in 2..Len(tree)}
ParentAt(s) == tree[s[1]][s[2]].parent[1]

\* C16: within one run no (tape, state, head) triple is expanded twice; a
\* configuration whose triple is already visited yields no successor, adds
\* nothing to the branch counter and is not recorded as the accept node; a
\* configuration that is processed and not skipped is in the visited set
\* afterwards.
C16_VisitedPruning ==
    /\ [](\A s \in ChildSlots :
            Cardinality({r \in ChildSlots : Key(ParentAt(r)) = Key(ParentAt(s))})
            = Len(TransitionsFor(machine, ParentAt(s).state,
                    ExtendTape(ParentAt(s).tape, ParentAt(s).head)
                        [ParentAt(s).head + 1])))
    /\ [][InForBody =>
            IF Key(current_config) \in visited
            THEN /\ next_level' = next_level
                 /\ branching_factor' = branching_factor
                 /\ accept_path' = accept_path
                 /\ result' = result
                 /\ visited' = visited
                 /\ pc' = pc
            ELSE visited' = visited \cup {Key(current_config)}]_vars
    /\ [][pc = "for" => visited \subseteq visited']_vars

C16_Witness ==
    /\ pc = "for" /\ idx > 2 /\ level >= 2
    /\ \E i \in 1..(idx - 2) : Key(current_level[i]) = Key(current_level[idx - 1])
    /\ next_level # <<>>
    /\ total_configurations > Cardinality(visited)

\* The indices of the table rows whose key is (state, char).
RowsFor(m, state, char) ==
    {r \in 1..Len(m.rules) : m.rules[r][1] = state /\ m.rules[r][2] = char}

\* The successor that row r of the table gives for the configuration c.
ChildBy(m, c, r) ==
    LET tape == IF c.head >= Len(c.tape)
                THEN c.tape \o [i \in 1..(c.head - Len(c.tape) + 1) |-> "_"]
                ELSE c.tape
    IN  [tape |-> SubSeq(tape, 1, c.head) \o m.rules[r][4]
                      \o SubSeq(tape, c.head + 2, Len(tape)),
         state |-> m.rules[r][3],
         head |-> IF m.rules[r][5] = "R" THEN c.head + 1 ELSE c.head - 1,
         parent |-> <<c>>]

SymbolAt(c) == IF c.head >= Len(c.tape) THEN "_" ELSE c.tape[c.head + 1]

\* C17: expanding a non-duplicate configuration c with a non-terminal state
\* and head >= 0 appends one successor per row of the key (c.state, symbol
\* at the head), in row order, after the successors already in the next
\* level, each with parent c; the whole next level becomes one tree level,
\* and every configuration taken from a level is counted.
C17_BranchEnumeration ==
    /\ [][(InForBody /\ Key(current_config) \notin visited
             /\ current_config.state \notin {machine.accept, machine.reject}
             /\ current_config.head >= 0) =>
            LET c == current_config
                rows == RowsFor(machine, c.state, SymbolAt(c))
                n == Len(next_level)
            IN  /\ Len(next_level') = n + Cardinality(rows)
                /\ SubSeq(next_level', 1, n) = next_level
                /\ \A r \in rows :
                      next_level'[n + Cardinality({q \in rows : q <= r})]
                          = ChildBy(machine, c, r)
                /\ branching_factor' = branching_factor + Cardinality(rows)
                /\ tree' = tree /\ pc' = pc]_vars
    /\ [][(pc = "for" /\ pc' = "while") =>
            (idx > Len(current_level) /\ tree' = Append(tree, next_level))]_vars
    /\ [][InForBody => total_configurations' = total_configurations + 1]_vars
    /\ [][(pc = "for" /\ pc' = "done" /\ result' # "accept") =>
            idx > Len(current_level)]_vars

C17_Witness ==
    /\ pc = "for" /\ idx > Len(current_level) /\ Len(next_level) >= 2
    /\ \E i \in 1..Len(next_level) : \E j \in (i + 1)..Len(next_level) :
          /\ next_level[i].parent # next_level[j].parent
          /\ Key(next_level[i].parent[1]) # Key(next_level[j].parent[1])
    /\ \E i \in 1..Len(tree[level]) :
          /\ Cardinality(RowsFor(machine, tree[level][i].state,
                                 SymbolAt(tree[level][i]))) >= 2
          /\ \E j \in 1..Len(tree[level + 1]) :
                tree[level + 1][j].parent = <<tree[level][i]>>

\* A configuration that is in the reject state, or has head < 0 and is not
\* in the accept state, or has no row for (state, symbol at the head).
DeadAsStated(m, c) ==
    \/ c.state = m.reject
    \/ (c.head < 0 /\ c.state # m.accept)
    \/ (c.head >= 0 /\ RowsFor(m, c.state, SymbolAt(c)) = {})

\* The same, for a configuration that is not in the accept state.
Dead(m, c) == c.state # m.accept /\ DeadAsStated(m, c)

\* C18 as stated: processing a configuration that is in the reject state, or
\* has head < 0 and is not accepting, or has no transition, adds no
\* successor and the run goes on with the next configuration of the level.
C18_DeadBranchContinuesAsStated ==
    [][(InForBody /\ DeadAsStated(machine, current_config)) =>
          /\ next_level' = next_level
          /\ pc' = "for" /\ idx' = idx + 1 /\ level' = level
          /\ result' = result /\ out' = out]_vars

\* C18 amended: processing a configuration that is not in the accept state
\* and is in the reject state, has head < 0 or has no transition adds no
\* successor and the run goes on with the next configuration of the level;
\* a running call always has a next step (no error); and a reject verdict
\* is returned only when every configuration of the level was such a
\* configuration or a duplicate, none having produced a successor.
C18_DeadBranchContinues ==
    /\ [][(InForBody /\ Dead(machine, current_config)) =>
            /\ next_level' = next_level
            /\ pc' = "for" /\ idx' = idx + 1 /\ level' = level
            /\ result' = result /\ out' = out]_vars
    /\ [](pc \in {"while", "for"} => ENABLED Step)
    /\ []((Returned /\ result = "reject") =>
            /\ next_level = <<>>
            /\ \A i \in 1..Len(current_level) :
                  \/ Dead(machine, current_level[i])
                  \/ \E j \in 1..(i - 1) :
                        Key(current_level[j]) = Key(current_level[i])
                  \/ \E l \in 1..level : \E j \in 1..Len(tree[l]) :
                        Key(tree[l][j]) = Key(current_level[i]))

C18_Witness ==
    /\ pc = "for" /\ idx > Len(current_level) /\ next_level # <<>>
    /\ \E i \in 1..Len(current_level) : \E j \in (i + 1)..Len(current_level) :
          /\ current_level[i].head < 0 /\ Dead(machine, current_level[i])
          /\ \E k \in 1..Len(next_level) :
                next_level[k].parent = <<current_level[j]>>

\* C19: when a run on a fresh engine with max_depth >= 0 returns reject, the
\* visited set holds the root and no accept-state triple and is closed under
\* the transition relation on live triples, no accept-state configuration is
\* reachable in any number of transitions, and a run with a larger depth
\* bound returns reject with the same step count.
C19_RejectIsFinal ==
    /\ (Returned /\ FreshRun /\ result = "reject" /\ max_depth >= 0) =>
          /\ Root \in visited
          /\ \A t \in visited :
                /\ t[2] # machine.accept
                /\ Live(machine, t) => Moves(machine, t) \subseteq visited
          /\ \A k \in 0..MaxSteps : ~AcceptReachableIn(k)
    /\ (Returned /\ FreshRun /\ prev # <<>> /\ prev[1].result = "reject"
          /\ prev[1].depth >= 0 /\ max_depth >= prev[1].depth) =>
          /\ result = "reject"
          /\ out = prev[1].out

C19_Witness ==
    /\ Returned /\ FreshRun /\ prev # <<>> /\ prev[1].result = "reject"
    /\ prev[1].depth >= 0 /\ max_depth > prev[1].depth
    /\ result = "reject" /\ out[1].n >= 2
    /\ total_configurations > Cardinality(visited)
    /\ \E t \in visited : Moves(machine, t) # {} /\ Live(machine, t)

\* Every write_char of the machine is a single character.
SingleCharWrites(m) == \A r \in 1..Len(m.rules) : Len(m.rules[r][4]) = 1

\* The configurations of the tree and of the next level under construction.
AllConfigs ==
    UNION {{tree[l][i] : i \in 1..Len(tree[l])} : l \in 1..Len(tree)}
        \cup {next_level[i] : i \in 1..Len(next_level)}

\* C20: for a machine whose write symbols are single characters every
\* configuration has -1 <= head <= len(tape); a parent with head = len(tape)
\* is read as a blank after one blank is added; from parent to child the
\* tape keeps its length or, in that case only, grows by one; and a
\* configuration with head = -1 has no child.
C20_HeadAndTapeBounds ==
    SingleCharWrites(machine) =>
        \A c \in AllConfigs :
            /\ -1 <= c.head /\ c.head <= Len(c.tape)
            /\ c.parent # <<>> =>
                  LET p == c.parent[1]
                  IN  /\ p.head >= 0
                      /\ c.head \in {p.head - 1, p.head + 1}
                      /\ IF p.head = Len(p.tape)
                         THEN /\ Len(c.tape) = Len(p.tape) + 1
                              /\ SubSeq(c.tape, 1, Len(p.tape)) = p.tape
                              /\ \E r \in RowsFor(machine, p.state, "_") :
                                    /\ c.state = machine.rules[r][3]
                                    /\ <<c.tape[Len(c.tape)]>> = machine.rules[r][4]
                         ELSE /\ Len(c.tape) = Len(p.tape)
                              /\ \E r \in RowsFor(machine, p.state,
                                                  p.tape[p.head + 1]) :
                                    c.state = machine.rules[r][3]

C20_Witness ==
    /\ SingleCharWrites(machine)
    /\ \E c \in AllConfigs : c.head = -1 /\ c.state # machine.accept
    /\ \E c \in AllConfigs :
          /\ c.parent # <<>>
          /\ c.parent[1].head = Len(c.parent[1].tape)
          /\ c.head = Len(c.tape)
    /\ pc = "done" /\ Len(tree) >= 3
====
